---------------------------- MODULE Spec2Model ----------------------------
(***************************************************************************)
(* CoatDoctor worker (src/src/index.ts): the request handlers of the       *)
(* Cloudflare Worker, the in-memory knowledge base of SOP entries, the     *)
(* keyword fallback scorer and the external bindings (Workers AI,          *)
(* Vectorize, R2) the handlers call.                                       *)
(*                                                                         *)
(* JavaScript strings that the code searches, trims, lower-cases or        *)
(* decodes are sequences of one-character strings (UTF-16 code units);     *)
(* strings the code only copies or compares for equality are TLA+ strings. *)
(* Non-ASCII characters of the source literals are transliterated in the   *)
(* copied fields (en dash -> "-", right arrow -> "->").                    *)
(*                                                                         *)
(* A property of a request body that is absent reads as the empty string,  *)
(* which is what every handler turns undefined into (?? "" and || "").     *)
(* The worker handles one request at a time here: the handlers share no    *)
(* mutable state but the bindings, and a handler's steps are the stretches *)
(* between its awaits.  An external call either returns or throws; what it *)
(* returns is chosen by the environment.                                   *)
(***************************************************************************)
EXTENDS Integers, Sequences, FiniteSets, TLC

(***************************************************************************)
(* String primitives of the JavaScript runtime used by the code.           *)
(***************************************************************************)
UpperCase == <<"A", "B", "C", "D", "E", "F", "G", "H", "I", "J", "K", "L", "M", "N", "O", "P", "Q", "R",
        "S", "T", "U", "V", "W", "X", "Y", "Z">>
LowerCase == <<"a", "b", "c", "d", "e", "f", "g", "h", "i", "j", "k", "l", "m", "n", "o", "p", "q", "r",
        "s", "t", "u", "v", "w", "x", "y", "z">>
Digits == <<"0", "1", "2", "3", "4", "5", "6", "7", "8", "9">>

Range(s) == {s[i] : i \in 1..Len(s)}

Min(a, b) == IF a < b THEN a ELSE b

\* String.prototype.toLowerCase, one code unit: the letters it changes.
LowerOf ==
  [c \in Range(UpperCase) |->
     LowerCase[CHOOSE i \in 1..Len(UpperCase) : UpperCase[i] = c]]

LowerChar(c) == IF c \in DOMAIN LowerOf THEN LowerOf[c] ELSE c

\* String.prototype.toLowerCase.
toLowerCase(s) == [i \in 1..Len(s) |-> LowerChar(s[i])]

\* String.prototype.includes(p): p occurs in s as a contiguous substring.
includes(s, p) ==
  \E i \in 0..(Len(s) - Len(p)) : \A j \in 1..Len(p) : s[i + j] = p[j]

\* String.prototype.indexOf(c) for a one-character c, 0-based, -1 when absent.
indexOf(s, c) ==
  IF \E i \in 1..Len(s) : s[i] = c
  THEN (CHOOSE i \in 1..Len(s) : s[i] = c /\ \A j \in 1..(i - 1) : s[j] # c) - 1
  ELSE -1

\* String.prototype.slice(from) with a 0-based, non-negative from.
sliceFrom(s, from) == SubSeq(s, from + 1, Len(s))

\* White space removed by String.prototype.trim (the ASCII part of it).
WhiteSpace == {" ", "\t", "\n", "\r", "\f"}

RECURSIVE trimStart(_)
trimStart(s) ==
  IF s # <<>> /\ Head(s) \in WhiteSpace THEN trimStart(Tail(s)) ELSE s

RECURSIVE trimEnd(_)
trimEnd(s) ==
  IF s # <<>> /\ s[Len(s)] \in WhiteSpace
  THEN trimEnd(SubSeq(s, 1, Len(s) - 1))
  ELSE s

\* String.prototype.trim that strips only leading white space.
trim_StartOnly(s) == trimStart(s)

\* String.prototype.trim.
trim(s) == trimEnd(trimStart(s))

(***************************************************************************)
(* Small utilities (index.ts lines 12-49).                                 *)
(***************************************************************************)
\* The longest file name sanitizeFileName returns.
FileNameMax == 160

\* Characters the regular expression [\w.\-] accepts.
FileNameChars ==
  Range(UpperCase) \cup Range(LowerCase) \cup Range(Digits) \cup {"_", ".", "-"}

RECURSIVE dropRejected(_)
dropRejected(s) ==
  IF s # <<>> /\ Head(s) \notin FileNameChars THEN dropRejected(Tail(s)) ELSE s

\* name.replace(/[^\w.\-]+/g, "_"): every maximal run of rejected characters
\* becomes one underscore.
RECURSIVE replaceRejected(_)
replaceRejected(s) ==
  IF s = <<>> THEN <<>>
  ELSE IF Head(s) \in FileNameChars
       THEN <<Head(s)>> \o replaceRejected(Tail(s))
       ELSE <<"_">> \o replaceRejected(dropRejected(Tail(s)))

sanitizeFileName(name) ==
  LET r == replaceRejected(name) IN SubSeq(r, 1, Min(Len(r), FileNameMax))

stripDataUrlPrefix(dataUrl) ==
  IF dataUrl = <<>> THEN <<>>
  ELSE LET i == indexOf(dataUrl, ",")
       IN IF i >= 0 THEN sliceFrom(dataUrl, i + 1) ELSE dataUrl

\* atob: the forgiving-base64 decode of the runtime.
Base64Alphabet ==
  UpperCase \o LowerCase \o Digits \o <<"+", "/">>

Base64Value(c) == (CHOOSE i \in 1..Len(Base64Alphabet) : Base64Alphabet[i] = c) - 1

atobStripped(s) == SelectSeq(s, LAMBDA c : c \notin WhiteSpace)

atobUnpadded(s) ==
  IF Len(s) > 0 /\ Len(s) % 4 = 0
  THEN IF Len(s) >= 2 /\ s[Len(s)] = "=" /\ s[Len(s) - 1] = "="
       THEN SubSeq(s, 1, Len(s) - 2)
       ELSE IF s[Len(s)] = "=" THEN SubSeq(s, 1, Len(s) - 1) ELSE s
  ELSE s

RECURSIVE atobBytes(_)
atobBytes(s) ==
  IF Len(s) >= 4
  THEN LET n == Base64Value(s[1]) * 262144 + Base64Value(s[2]) * 4096
                + Base64Value(s[3]) * 64 + Base64Value(s[4])
       IN <<n \div 65536, (n \div 256) % 256, n % 256>>
            \o atobBytes(SubSeq(s, 5, Len(s)))
  ELSE IF Len(s) = 3
  THEN LET n == (Base64Value(s[1]) * 4096 + Base64Value(s[2]) * 64
                 + Base64Value(s[3])) \div 4
       IN <<n \div 256, n % 256>>
  ELSE IF Len(s) = 2
  THEN <<(Base64Value(s[1]) * 64 + Base64Value(s[2])) \div 16>>
  ELSE <<>>

\* atob throws (ok = FALSE) on a character outside the alphabet or a length
\* of 1 modulo 4; otherwise bytes are the char codes of the binary string.
decodeBase64ToBytes(base64) ==
  LET s == atobUnpadded(atobStripped(base64))
  IN IF Len(s) % 4 # 1 /\ \A i \in 1..Len(s) : s[i] \in Range(Base64Alphabet)
     THEN [ok |-> TRUE, bytes |-> atobBytes(s)]
     ELSE [ok |-> FALSE, bytes |-> <<>>]

(***************************************************************************)
(* Knowledge base (index.ts lines 51-158).                                 *)
(***************************************************************************)
\* CD001-OP text: "Uneven, orange-skin texture of the coating film. ..."
TextOP ==
  <<"U", "n", "e", "v", "e", "n", ",", " ", "o", "r", "a", "n", "g", "e", "-", "s", "k", "i",
        "n", " ", "t", "e", "x", "t", "u", "r", "e", " ", "o", "f", " ", "t", "h", "e", " ", "c",
        "o", "a", "t", "i", "n", "g", " ", "f", "i", "l", "m", ".", " ", "U", "s", "u", "a", "l",
        "l", "y", " ", "l", "i", "n", "k", "e", "d", " ", "t", "o", " ", "v", "i", "s", "c", "o",
        "s", "i", "t", "y", "/", "l", "e", "v", "e", "l", "i", "n", "g", ",", " ", "e", "x", "c",
        "e", "s", "s", "i", "v", "e", " ", "w", "e", "t", " ", "f", "i", "l", "m", ",", " ", "a",
        "n", "d", " ", "o", "v", "e", "r", "l", "y", " ", "a", "g", "g", "r", "e", "s", "s", "i",
        "v", "e", " ", "e", "a", "r", "l", "y", " ", "d", "r", "y", "i", "n", "g", " ", "(", "s",
        "k", "i", "n", "n", "i", "n", "g", ")", ".">>

\* CD002-PH text: "Small holes/craters after baking; ..."
TextPH ==
  <<"S", "m", "a", "l", "l", " ", "h", "o", "l", "e", "s", "/", "c", "r", "a", "t", "e", "r",
        "s", " ", "a", "f", "t", "e", "r", " ", "b", "a", "k", "i", "n", "g", ";", " ", "t", "y",
        "p", "i", "c", "a", "l", "l", "y", " ", "c", "o", "n", "t", "a", "m", "i", "n", "a", "t",
        "i", "o", "n", ",", " ", "t", "r", "a", "p", "p", "e", "d", " ", "v", "o", "l", "a", "t",
        "i", "l", "e", "s", " ", "o", "r", " ", "f", "o", "a", "m", " ", "f", "r", "o", "m", " ",
        "t", "u", "r", "b", "u", "l", "e", "n", "t", " ", "m", "i", "x", "i", "n", "g", "/", "p",
        "u", "m", "p", "i", "n", "g", ".">>

\* CD003-LN text: "Linear defects tied to doctor blade or roller condition; ..."
TextLN ==
  <<"L", "i", "n", "e", "a", "r", " ", "d", "e", "f", "e", "c", "t", "s", " ", "t", "i", "e",
        "d", " ", "t", "o", " ", "d", "o", "c", "t", "o", "r", " ", "b", "l", "a", "d", "e", " ",
        "o", "r", " ", "r", "o", "l", "l", "e", "r", " ", "c", "o", "n", "d", "i", "t", "i", "o",
        "n", ";", " ", "m", "e", "c", "h", "a", "n", "i", "c", "a", "l", " ", "i", "n", "s", "p",
        "e", "c", "t", "i", "o", "n", " ", "a", "n", "d", " ", "a", "l", "i", "g", "n", "m", "e",
        "n", "t", " ", "a", "r", "e", " ", "k", "e", "y", ".">>

\* CD004-AD text: "Loss of adhesion between layers; ..."
TextAD ==
  <<"L", "o", "s", "s", " ", "o", "f", " ", "a", "d", "h", "e", "s", "i", "o", "n", " ", "b",
        "e", "t", "w", "e", "e", "n", " ", "l", "a", "y", "e", "r", "s", ";", " ", "c", "h", "e",
        "c", "k", " ", "p", "r", "e", "t", "r", "e", "a", "t", "m", "e", "n", "t", ",", " ", "c",
        "u", "r", "e", " ", "o", "f", " ", "p", "r", "e", "v", "i", "o", "u", "s", " ", "c", "o",
        "a", "t", "s", " ", "a", "n", "d", " ", "m", "i", "x", "i", "n", "g", "/", "h", "a", "r",
        "d", "e", "n", "e", "r", " ", "r", "a", "t", "i", "o", ".">>

\* CD005-STK text: "Blocking of side-printed sheets/caps; ..."
TextSTK ==
  <<"B", "l", "o", "c", "k", "i", "n", "g", " ", "o", "f", " ", "s", "i", "d", "e", "-", "p",
        "r", "i", "n", "t", "e", "d", " ", "s", "h", "e", "e", "t", "s", "/", "c", "a", "p", "s",
        ";", " ", "c", "o", "o", "l", "i", "n", "g", "/", "s", "t", "a", "c", "k", " ", "r", "u",
        "l", "e", "s", " ", "a", "n", "d", " ", "f", "i", "l", "m", " ", "b", "u", "i", "l", "d",
        " ", "m", "a", "n", "a", "g", "e", "m", "e", "n", "t", " ", "a", "r", "e", " ", "c", "e",
        "n", "t", "r", "a", "l", ".">>

\* The literal catalog, in declaration order.
KBLiteral ==
  << [code |-> "CD001-OP",
      name |-> "Orange peel - textured surface",
      severity |-> "Medium",
      text |-> TextOP,
      root_causes |->
        << "Viscosity outside process window (too high -> poor leveling)",
           "Excess wet film thickness (especially at head)",
           "Aggressive early drying (IR/hot air) causing skinning",
           "Insufficient airflow / uneven leveling time" >>,
      corrective_actions |->
        << "Adjust viscosity to SOP DIN-4 window and re-check leveling",
           "Reduce wet film thickness; verify application weight",
           "Soften first zone drying; avoid premature skinning",
           "Balance airflow; run structured speed/viscosity tests" >>],
     [code |-> "CD002-PH",
      name |-> "Pinholes / small craters",
      severity |-> "High",
      text |-> TextPH,
      root_causes |->
        << "Air entrainment/turbulent mixing causing micro-bubbles",
           "Surface contamination (oil/silicone) at substrate/rollers",
           "Solvent balance -> too fast surface evaporation traps volatiles",
           "Humidity peaks / dirty environment" >>,
      corrective_actions |->
        << "Degas lacquer; avoid turbulent mixing/pumping; check pump setup",
           "Clean substrate, rollers and environment thoroughly",
           "Adjust solvent balance/oven; slower initial evaporation profile",
           "Compare lab bake vs line to isolate process vs formulation" >>],
     [code |-> "CD003-LN",
      name |-> "Streaks / lines",
      severity |-> "Medium",
      text |-> TextLN,
      root_causes |->
        << "Doctor blade wear/damage or incorrect pressure",
           "Roller damage/mapping correlating with repeat length",
           "Flow/viscosity imbalance amplifying mechanical marks" >>,
      corrective_actions |->
        << "Inspect/replace blade; set correct pressure and alignment",
           "Map rollers vs defect repeat; regrind/replace if needed",
           "Cross-check viscosity/flow; run elimination tests" >>],
     [code |-> "CD004-AD",
      name |-> "Poor adhesion / flaking",
      severity |-> "High",
      text |-> TextAD,
      root_causes |->
        << "Pre-treatment off-spec (washing/chemistry)",
           "Under-bake of previous layer or extreme over-bake",
           "Incorrect hardener ratio / exceeded pot life",
           "Surface contamination (oil/silicone)" >>,
      corrective_actions |->
        << "Verify pretreatment parameters + documentation",
           "Check oven curve; correct under/over-bake scenarios",
           "Validate hardener ratio/pot life; mix fresh batch",
           "Perform tape test per SOP; ensure cleanliness" >>],
     [code |-> "CD005-STK",
      name |-> "Sticking after side print",
      severity |-> "Medium",
      text |-> TextSTK,
      root_causes |->
        << "Insufficient cooling and improper stack management",
           "Film build too high causing blocking",
           "Crosslinker/lacquer batch sensitivity" >>,
      corrective_actions |->
        << "Improve cooling; enforce stack height rules",
           "Run small batch + lab oven tests to compare line vs lab",
           "Evaluate crosslinker/lacquer batch; adjust formulation window" >>] >>

\* KB.find(e => e.code === code): the first entry with that code, as a
\* sequence of at most one entry (empty for undefined).
findSop(kb, code) ==
  IF \E i \in 1..Len(kb) : kb[i].code = code
  THEN <<kb[CHOOSE i \in 1..Len(kb) :
              kb[i].code = code /\ \A j \in 1..(i - 1) : kb[j].code # code]>>
  ELSE <<>>

(***************************************************************************)
(* Keyword fallback of handleAnalyze (index.ts lines 273-286).             *)
(***************************************************************************)
\* Number(b) as JavaScript's + applies it to a boolean operand.
ToNumber(b) == IF b THEN 1 ELSE 0

\* The score expression as written, without the lower-casing of the
\* description.
fallbackT_Raw(description) == description

\* const t = description.toLowerCase();
fallbackT(description) == toLowerCase(description)

\* The score expression with "hole" as the keyword looked for in the entry
\* text by the pinhole clause.
fallbackScore_HoleKeyword(e, t) ==
  IF (IF includes(toLowerCase(e.text), <<"o", "r", "a", "n", "g", "e">>) /\ includes(t, <<"o", "r", "a", "n", "g", "e", " ", "p", "e", "e", "l">>)
      THEN 2 ELSE 0)
       + ToNumber(includes(toLowerCase(e.text), <<"h", "o", "l", "e">>)
                    /\ (includes(t, <<"p", "i", "n", "h", "o", "l", "e", "s">>) \/ includes(t, <<"c", "r", "a", "t", "e", "r">>)))
       # 0
  THEN 2
  ELSE 0 + (IF includes(t, <<"a", "d", "h", "e", "s", "i", "o", "n">>) \/ includes(t, <<"t", "a", "p", "e", " ", "t", "e", "s", "t">>)
            THEN (IF e.code = "CD004-AD" THEN 2 ELSE 0)
            ELSE 0)

\* The score expression of lines 278-281 as JavaScript parses it.  "+" binds
\* tighter than "?:", so the expression is
\*   ((orange ? 2 : 0) + (pinhole && (pinholes || crater))) ? 2
\*                                                          : (0 + (adhesion...))
\* with the boolean of the second operand converted to a number by "+" and
\* the sum tested for truthiness (non-zero).
fallbackScore(e, t) ==
  IF (IF includes(toLowerCase(e.text), <<"o", "r", "a", "n", "g", "e">>) /\ includes(t, <<"o", "r", "a", "n", "g", "e", " ", "p", "e", "e", "l">>)
      THEN 2 ELSE 0)
       + ToNumber(includes(toLowerCase(e.text), <<"p", "i", "n", "h", "o", "l", "e">>)
                    /\ (includes(t, <<"p", "i", "n", "h", "o", "l", "e", "s">>) \/ includes(t, <<"c", "r", "a", "t", "e", "r">>)))
       # 0
  THEN 2
  ELSE 0 + (IF includes(t, <<"a", "d", "h", "e", "s", "i", "o", "n">>) \/ includes(t, <<"t", "a", "p", "e", " ", "t", "e", "s", "t">>)
            THEN (IF e.code = "CD004-AD" THEN 2 ELSE 0)
            ELSE 0)

\* KB.map(e => ({entry: e, score: ...}))
fallbackScored(kb, t) ==
  [i \in 1..Len(kb) |-> [entry |-> kb[i], score |-> fallbackScore(kb[i], t)]]

\* A comparator that orders by ascending score.
compareScored_Ascending(a, b) == a.score - b.score

\* (a, b) => b.score - a.score
compareScored(a, b) == b.score - a.score

\* Array.prototype.sort is stable: x goes after every element that does not
\* compare greater than it.
RECURSIVE insertStable(_, _)
insertStable(s, x) ==
  IF s = <<>> THEN <<x>>
  ELSE IF compareScored(Head(s), x) <= 0
       THEN <<Head(s)>> \o insertStable(Tail(s), x)
       ELSE <<x>> \o s

RECURSIVE sortScored(_)
sortScored(s) ==
  IF s = <<>> THEN <<>>
  ELSE insertStable(sortScored(SubSeq(s, 1, Len(s) - 1)), s[Len(s)])

\* The catalog after a sort applied to KB itself instead of the mapped copy.
kbAfterFallback_SortedInPlace(kb, sorted) == [i \in 1..Len(sorted) |-> sorted[i].entry]

\* The catalog after the fallback: KB.map builds a new array and sort
\* reorders that array, so KB keeps its entries and their order.
kbAfterFallback(kb, sorted) == kb

\* Lines 283-285: the match built from the sorted scores.
fallbackMatch(kb, sorted) ==
  LET top == IF Len(sorted) > 0 THEN sorted[1].entry ELSE kb[1]
  IN [code |-> top.code, name |-> top.name, severity |-> top.severity,
      score |-> IF Len(sorted) > 0 THEN sorted[1].score ELSE 0]

(***************************************************************************)
(* Values of the handlers.                                                 *)
(***************************************************************************)
\* undefined / null of a string-valued property.
Undefined == "<undefined>"

\* a ?? b
Coalesce(a, b) == IF a = Undefined THEN b ELSE a

\* null of an object-store key.
NullKey == [prefix |-> "null", stamp |-> 0, name |-> <<>>]

\* null of a match candidate.
NullMatch == [code |-> Undefined, name |-> Undefined, severity |-> Undefined, score |-> 0]

NullDefect ==
  [code |-> Undefined, name |-> Undefined, severity |-> Undefined,
   root_causes |-> <<>>, corrective_actions |-> <<>>]

NoReply ==
  [kind |-> "none", code |-> Undefined, name |-> Undefined, severity |-> Undefined,
   score |-> 0, text |-> ""]

\* The properties a response body can carry, absent ones at their null.
NoBody ==
  [ok |-> "absent", error |-> "", service |-> "", mutationId |-> Undefined,
   image_key |-> NullKey, best_match |-> NullMatch, defect |-> NullDefect,
   rationale |-> Undefined, reply |-> NoReply, key |-> NullKey]

\* json(obj, status): lines 22-27.
json(obj, status) ==
  [status |-> status,
   body |-> [f \in DOMAIN NoBody |-> IF f \in DOMAIN obj THEN obj[f] ELSE NoBody[f]]]

\* No response yet.
NoResponse == json([ok |-> "absent"], 0)

\* The catch of fetch (lines 401-403) around every handler.
fetchCatch(message) == json([ok |-> "false", error |-> message], 500)

NoRequest ==
  [op |-> "none", valid |-> TRUE, description |-> <<>>, image_base64 |-> <<>>,
   filename |-> <<>>, message |-> <<>>, contentType |-> "", data |-> <<>>]

(***************************************************************************)
(* Bounds and the inputs drawn from them.                                  *)
(***************************************************************************)
\* The most words in the description or message of a request to the worker.
MaxWords == 1

\* The most words in a description given to the keyword fallback alone.
MaxScoredWords == 2

\* Words of the descriptions the keyword fallback is explored with.
Words ==
  { <<"O", "r", "a", "n", "g", "e", " ", "p", "e", "e", "l">>, <<"o", "r", "a", "n", "g", "e">>, <<" ", "p", "e", "e", "l">>, <<"p", "i", "n", "h", "o", "l", "e", "s">>, <<"c", "r", "a", "t", "e", "r">>,
    <<"a", "d", "h", "e", "s", "i", "o", "n">>, <<"T", "a", "p", "e", " ", "T", "e", "s", "t">> }

\* Words of the descriptions and messages of the requests.
RequestWords == { <<"O", "r", "a", "n", "g", "e", " ", "p", "e", "e", "l">>, <<"c", "r", "a", "t", "e", "r">>, <<"a", "d", "h", "e", "s", "i", "o", "n">> }

RECURSIVE Descriptions(_, _)
Descriptions(words, n) ==
  IF n = 0 THEN {<<>>}
  ELSE Descriptions(words, n - 1)
         \cup {d \o w : d \in Descriptions(words, n - 1), w \in words}

\* Date.now(): the clock is read at one instant.
Timestamps == {1}

\* image_base64 / data payloads: absent, a data URL of valid base64, bare
\* valid base64, and one atob rejects.
Payloads == { <<>>, <<"d", "a", "t", "a", ":", "i", "m", "a", "g", "e", "/", "p", "n", "g", ";", "b", "a", "s",
        "e", "6", "4", ",", "Q", "U", "I", "=">>, <<"Q", "U", "I", "=">>, <<"Q", "U", "-", "D", "R">> }

FileNames == { <<>>, <<"a", " ", "/", "b", ".", "j", "p", "g">> }

ContentTypes == { "", "image/png" }

\* Vectors the index holds that no seed of this catalog wrote: one without
\* metadata, one whose metadata names a code the catalog does not have.
ForeignVectors ==
  { [id |-> "legacy-17",
     metadata |-> [code |-> Undefined, name |-> Undefined, severity |-> Undefined]],
    [id |-> "v-9",
     metadata |-> [code |-> "CD009-BL", name |-> "Blistering", severity |-> "Low"]] }

NoVector ==
  [id |-> Undefined,
   metadata |-> [code |-> Undefined, name |-> Undefined, severity |-> Undefined]]

\* The similarity the index reports for its best match.
Similarities == {87}

\* What the embedding call and the index query of one vectorizeMatch do.
VectorOutcomes(idx) ==
  { [embed |-> "throw", query |-> "none", best |-> NoVector, score |-> 0],
    [embed |-> "empty", query |-> "none", best |-> NoVector, score |-> 0],
    [embed |-> "ok", query |-> "throw", best |-> NoVector, score |-> 0],
    [embed |-> "ok", query |-> "none", best |-> NoVector, score |-> 0] }
  \cup { [embed |-> "ok", query |-> "match", best |-> v, score |-> s] :
           v \in idx, s \in Similarities }

AnalyzeBodies(descriptions) ==
  { [NoRequest EXCEPT !.op = "analyze", !.valid = FALSE] }
  \cup { [NoRequest EXCEPT !.op = "analyze", !.description = d,
                           !.image_base64 = p, !.filename = f] :
           d \in descriptions, p \in Payloads, f \in FileNames }

Messages ==
  { <<>>, <<" ", " ">>, <<"a", "b">>, <<" ", "a", "b", "\t">>, <<"a", "b", "c">>, <<"\n", "a", "b", "c", " ">> }
  \cup { <<" ">> \o d \o <<" ">> : d \in Descriptions(RequestWords, MaxWords) }

ChatBodies ==
  { [NoRequest EXCEPT !.op = "chat", !.valid = FALSE] }
  \cup { [NoRequest EXCEPT !.op = "chat", !.message = m] : m \in Messages }

UploadBodies ==
  { [NoRequest EXCEPT !.op = "upload", !.valid = FALSE] }
  \cup { [NoRequest EXCEPT !.op = "upload", !.filename = f, !.contentType = c,
                           !.data = p] :
           f \in FileNames, c \in ContentTypes, p \in Payloads }

(***************************************************************************)
(* State.                                                                  *)
(***************************************************************************)
VARIABLES
  KB,          \* the in-memory catalog
  env,         \* which optional bindings the deployment configures
  bucket,      \* DEFECT_IMAGES: key -> stored object
  index,       \* VECTORIZE_INDEX: the vectors it holds
  pc,          \* position of the request being handled
  req,         \* the request being handled (the last one, when idle)
  image_key,   \* handleAnalyze's image_key
  scored,      \* handleAnalyze's scored, <<>> until the fallback builds it
  best_match,  \* handleAnalyze's best_match
  calls,       \* what the request has called so far ("x!" : the call threw)
  resp         \* the response to req, NoResponse until it is sent

vars == <<KB, env, bucket, index, pc, req, image_key, scored, best_match, calls, resp>>

EmptyBucket == [k \in {} |-> 0]

\* R2Bucket.put: the object replaces whatever the key held.
put(b, key, object) ==
  [k \in DOMAIN b \cup {key} |-> IF k = key THEN object ELSE b[k]]

\* VectorizeIndex.upsert: a vector replaces the one with its id.
upsert(idx, payload) ==
  {v \in idx : \A p \in payload : p.id # v.id} \cup payload

Init ==
  /\ KB = KBLiteral
  /\ env \in [DEFECT_IMAGES : BOOLEAN, VECTORIZE_INDEX : BOOLEAN]
  /\ bucket = EmptyBucket
  /\ index \in (IF env.VECTORIZE_INDEX THEN {{}, ForeignVectors} ELSE {{}})
  /\ pc = "idle"
  /\ req = NoRequest
  /\ image_key = NullKey
  /\ scored = <<>>
  /\ best_match = NullMatch
  /\ calls = {}
  /\ resp = NoResponse

(***************************************************************************)
(* Vectorize helpers (index.ts lines 189-233).                             *)
(***************************************************************************)
\* seedKBIntoVectorize's payload for the vectors the embedding returned.
seedPayload(kb, n) ==
  { [id |-> kb[i].code,
     metadata |-> [code |-> kb[i].code, name |-> kb[i].name,
                   severity |-> kb[i].severity]] : i \in 1..n }

\* vectorizeMatch: thrown, or the match (NullMatch for null), and its calls.
vectorizeMatch(configured, o) ==
  IF ~configured
  THEN [thrown |-> FALSE, match |-> NullMatch, calls |-> {}]
  ELSE IF o.embed = "throw"
  THEN [thrown |-> TRUE, match |-> NullMatch, calls |-> {"embed!"}]
  ELSE IF o.embed = "empty"
  THEN [thrown |-> FALSE, match |-> NullMatch, calls |-> {"embed"}]
  ELSE IF o.query = "throw"
  THEN [thrown |-> TRUE, match |-> NullMatch, calls |-> {"embed", "query!"}]
  ELSE IF o.query = "none"
  THEN [thrown |-> FALSE, match |-> NullMatch, calls |-> {"embed", "query"}]
  ELSE [thrown |-> FALSE,
        match |-> [code |-> Coalesce(o.best.metadata.code, o.best.id),
                   name |-> Coalesce(o.best.metadata.name, ""),
                   severity |-> Coalesce(o.best.metadata.severity, "Medium"),
                   score |-> o.score],
        calls |-> {"embed", "query"}]

(***************************************************************************)
(* Route handlers (index.ts lines 235-366), each entered from fetch        *)
(* (lines 370-404), whose catch turns a thrown error into a 500.           *)
(***************************************************************************)
handleHealth ==
  /\ pc = "idle"
  /\ req' = [NoRequest EXCEPT !.op = "health"]
  /\ resp' = json([ok |-> "true", service |-> "coatdoctor-worker"], 200)
  /\ calls' = {}
  /\ image_key' = NullKey
  /\ best_match' = NullMatch
  /\ pc' = "done"
  /\ UNCHANGED <<KB, env, bucket, index, scored>>

\* embed: what embedTexts does; upserted: what upsert does; mutationId: the
\* id upsert reports (Undefined for none).
handleSeed(embed, upserted, mutationId) ==
  /\ pc = "idle"
  /\ req' = [NoRequest EXCEPT !.op = "seed"]
  /\ image_key' = NullKey
  /\ best_match' = NullMatch
  /\ IF ~env.VECTORIZE_INDEX
     THEN /\ resp' = json([ok |-> "false", error |-> "VECTORIZE_INDEX binding missing"], 500)
          /\ calls' = {}
          /\ index' = index
     ELSE IF embed = "throw"
     THEN /\ resp' = fetchCatch("embedding failed")
          /\ calls' = {"embed!"}
          /\ index' = index
     ELSE IF upserted = "throw"
     THEN /\ resp' = fetchCatch("upsert failed")
          /\ calls' = {"embed", "upsert!"}
          /\ index' = index
     ELSE /\ resp' = json([ok |-> "true", mutationId |-> mutationId], 200)
          /\ calls' = {"embed", "upsert"}
          /\ index' = upsert(index, seedPayload(KB, IF embed = "empty" THEN 0 ELSE Len(KB)))
  /\ pc' = "done"
  /\ UNCHANGED <<KB, env, bucket, scored>>

\* if (!filename || !base64Data) with only the file name tested.
uploadMissing_FilenameOnly(filename, base64Data) == filename = <<>>

\* if (!filename || !base64Data)
uploadMissing(filename, base64Data) == filename = <<>> \/ base64Data = <<>>

handleUpload(body, stored) ==
  /\ pc = "idle"
  /\ req' = body
  /\ image_key' = NullKey
  /\ best_match' = NullMatch
  /\ LET filename == sanitizeFileName(body.filename)
         contentType == IF body.contentType # "" THEN body.contentType ELSE "image/jpeg"
         decoded == decodeBase64ToBytes(stripDataUrlPrefix(body.data))
         key == [prefix |-> "clients", stamp |-> 0, name |-> filename]
     IN IF ~env.DEFECT_IMAGES
        THEN /\ resp' = json([error |-> "R2 bucket not configured"], 500)
             /\ calls' = {}
             /\ bucket' = bucket
        ELSE IF ~body.valid
        THEN /\ resp' = json([error |-> "Invalid JSON"], 400)
             /\ calls' = {}
             /\ bucket' = bucket
        ELSE IF uploadMissing(filename, body.data)
        THEN /\ resp' = json([error |-> "Missing filename or data"], 400)
             /\ calls' = {}
             /\ bucket' = bucket
        ELSE IF ~decoded.ok
        THEN /\ resp' = json([error |-> "Invalid base64 data"], 400)
             /\ calls' = {"atob!"}
             /\ bucket' = bucket
        ELSE IF stored = "throw"
        THEN /\ resp' = fetchCatch("put failed")
             /\ calls' = {"put!"}
             /\ bucket' = bucket
        ELSE /\ resp' = json([ok |-> "true", key |-> key], 200)
             /\ calls' = {"put"}
             /\ bucket' = put(bucket, key, [bytes |-> decoded.bytes, contentType |-> contentType])
  /\ pc' = "done"
  /\ UNCHANGED <<KB, env, index, scored>>

\* handleAnalyze, lines 248-253: the body is read.
handleAnalyze_read(body) ==
  /\ pc = "idle"
  /\ req' = body
  /\ image_key' = NullKey
  /\ best_match' = NullMatch
  /\ calls' = {"handleAnalyze"}
  /\ IF ~body.valid
     THEN /\ resp' = json([ok |-> "false", error |-> "Invalid JSON"], 400)
          /\ pc' = "done"
     ELSE /\ resp' = NoResponse
          /\ pc' = "image"
  /\ UNCHANGED <<KB, env, bucket, index, scored>>

\* handleAnalyze, lines 255-268: the optional image is stored.
handleAnalyze_image(now, stored) ==
  /\ pc = "image"
  /\ LET decoded == decodeBase64ToBytes(stripDataUrlPrefix(req.image_base64))
         filenameIn == sanitizeFileName(req.filename)
         key == [prefix |-> "uploads", stamp |-> now,
                 name |-> IF filenameIn # <<>> THEN filenameIn ELSE <<"d", "e", "f", "e", "c", "t", ".", "j", "p", "g">>]
     IN IF env.DEFECT_IMAGES /\ req.image_base64 # <<>>
        THEN IF ~decoded.ok
             THEN /\ image_key' = NullKey
                  /\ calls' = calls \cup {"atob!"}
                  /\ bucket' = bucket
             ELSE IF stored = "throw"
             THEN /\ image_key' = key
                  /\ calls' = calls \cup {"put!"}
                  /\ bucket' = bucket
             ELSE /\ image_key' = key
                  /\ calls' = calls \cup {"put"}
                  /\ bucket' = put(bucket, key,
                                   [bytes |-> decoded.bytes, contentType |-> "image/jpeg"])
        ELSE UNCHANGED <<image_key, calls, bucket>>
  /\ pc' = "match"
  /\ UNCHANGED <<KB, env, index, req, scored, best_match, resp>>

\* handleAnalyze, lines 270-286: the vector match, else the keyword fallback.
handleAnalyze_match(o) ==
  /\ pc = "match"
  /\ LET vm == vectorizeMatch(env.VECTORIZE_INDEX, o)
         sorted == sortScored(fallbackScored(KB, fallbackT(req.description)))
     IN IF vm.thrown
        THEN /\ resp' = fetchCatch("vector match failed")
             /\ calls' = calls \cup vm.calls
             /\ pc' = "done"
             /\ UNCHANGED <<KB, scored, best_match>>
        ELSE IF vm.match = NullMatch
        THEN /\ scored' = sorted
             /\ best_match' = fallbackMatch(KB, sorted)
             /\ KB' = kbAfterFallback(KB, sorted)
             /\ calls' = calls \cup vm.calls \cup {"fallback"}
             /\ pc' = "rationale"
             /\ resp' = resp
        ELSE /\ best_match' = vm.match
             /\ calls' = calls \cup vm.calls
             /\ pc' = "rationale"
             /\ UNCHANGED <<KB, scored, resp>>
  /\ UNCHANGED <<env, bucket, index, req, image_key>>

\* The least length of a trimmed message handleChat passes on.
MinMessageLength == 3

\* handleChat's reply for the body handleAnalyze answered with (lines 327-341).
chatReply(data) ==
  IF data.ok = "false"
  THEN [NoReply EXCEPT !.kind = "unreachable",
          !.text = "I could not reach the analysis engine right now. Please try again later."]
  ELSE [kind |-> "match",
        code |-> data.best_match.code,
        name |-> data.defect.name,
        severity |-> Coalesce(data.best_match.severity, data.defect.severity),
        score |-> data.best_match.score,
        text |-> IF data.rationale # ""
                 THEN data.rationale
                 ELSE "Full SOP steps are part of the CoatDoctor handbook and internal engine."]

\* handleAnalyze, lines 288-303: the entry is resolved, the rationale is
\* asked for and the response is sent; handleChat (lines 327-341) reshapes
\* it when the request came through /api/chat.
handleAnalyze_rationale(generated) ==
  /\ pc = "rationale"
  /\ LET found == findSop(KB, best_match.code)
         defect == IF found # <<>> THEN found[1] ELSE KB[1]
         data == [ok |-> "true",
                  image_key |-> image_key,
                  best_match |-> best_match,
                  defect |-> [code |-> defect.code, name |-> defect.name,
                              severity |-> defect.severity,
                              root_causes |-> defect.root_causes,
                              corrective_actions |-> defect.corrective_actions],
                  rationale |-> IF generated = "text"
                                THEN "Likely cause and first actions."
                                ELSE ""]
     IN IF generated = "throw"
        THEN /\ resp' = fetchCatch("rationale failed")
             /\ calls' = calls \cup {"rationale!"}
        ELSE /\ resp' = IF req.op = "chat"
                        THEN json([reply |-> chatReply(data)], 200)
                        ELSE json(data, 200)
             /\ calls' = calls \cup {"rationale"}
  /\ pc' = "done"
  /\ UNCHANGED <<KB, env, bucket, index, req, image_key, scored, best_match>>

\* handleChat, lines 307-325: the message is validated and handed to
\* handleAnalyze as its description.
handleChat(body) ==
  /\ pc = "idle"
  /\ image_key' = NullKey
  /\ best_match' = NullMatch
  /\ LET message == trim(body.message)
     IN IF ~body.valid
        THEN /\ req' = body
             /\ resp' = json([error |-> "Invalid JSON"], 400)
             /\ calls' = {}
             /\ pc' = "done"
        ELSE IF message = <<>> \/ Len(message) < MinMessageLength
        THEN /\ req' = body
             /\ resp' = json([reply |-> [NoReply EXCEPT !.kind = "clarify",
                     !.text = "Please describe the defect in more detail - substrate, coating type, drying, line speed, etc."]],
                             200)
             /\ calls' = {}
             /\ pc' = "done"
        ELSE /\ req' = [body EXCEPT !.description = message]
             /\ resp' = NoResponse
             /\ calls' = {"handleAnalyze"}
             /\ pc' = "image"
  /\ UNCHANGED <<KB, env, bucket, index, scored>>

\* fetch returns the response (lines 379-403); the request's values are
\* discarded and the worker waits for the next request.
fetchReturn ==
  /\ pc = "done"
  /\ pc' = "idle"
  /\ req' = NoRequest
  /\ resp' = NoResponse
  /\ image_key' = NullKey
  /\ scored' = <<>>
  /\ best_match' = NullMatch
  /\ calls' = {}
  /\ UNCHANGED <<KB, env, bucket, index>>

Outcomes == {"ok", "throw"}

Next ==
  \/ handleHealth
  \/ \E embed \in {"ok", "empty", "throw"}, upserted \in Outcomes,
        mutationId \in {Undefined, "mutation-1"} :
       handleSeed(embed, upserted, mutationId)
  \/ \E body \in UploadBodies, stored \in Outcomes : handleUpload(body, stored)
  \/ \E body \in AnalyzeBodies(Descriptions(RequestWords, MaxWords)) :
       handleAnalyze_read(body)
  \/ \E now \in Timestamps, stored \in Outcomes : handleAnalyze_image(now, stored)
  \/ \E o \in VectorOutcomes(index) : handleAnalyze_match(o)
  \/ \E generated \in {"text", "empty", "throw"} : handleAnalyze_rationale(generated)
  \/ \E body \in ChatBodies : handleChat(body)
  \/ fetchReturn

Spec == Init /\ [][Next]_vars

(***************************************************************************)
(* The keyword fallback on its own: no image store, an index that is       *)
(* absent or empty, and descriptions of up to MaxScoredWords words.        *)
(***************************************************************************)
InitFallback ==
  /\ KB = KBLiteral
  /\ env \in [DEFECT_IMAGES : {FALSE}, VECTORIZE_INDEX : BOOLEAN]
  /\ bucket = EmptyBucket
  /\ index = {}
  /\ pc = "idle"
  /\ req = NoRequest
  /\ image_key = NullKey
  /\ scored = <<>>
  /\ best_match = NullMatch
  /\ calls = {}
  /\ resp = NoResponse

FallbackBodies ==
  { [NoRequest EXCEPT !.op = "analyze", !.description = d] :
      d \in Descriptions(Words, MaxScoredWords) }

NextFallback ==
  \/ \E body \in FallbackBodies : handleAnalyze_read(body)
  \/ \E now \in Timestamps, stored \in Outcomes : handleAnalyze_image(now, stored)
  \/ \E o \in VectorOutcomes(index) : handleAnalyze_match(o)
  \/ \E generated \in {"text", "empty", "throw"} : handleAnalyze_rationale(generated)
  \/ fetchReturn

SpecFallback == InitFallback /\ [][NextFallback]_vars

(***************************************************************************)
(* Vocabulary of the properties.                                           *)
(***************************************************************************)
KBCodes == {KB[i].code : i \in 1..Len(KB)}

\* The lower-cased description the rules are stated over.
LoweredDescription == toLowerCase(req.description)

\* The three rules of the fallback, each on its own.
OrangeRule(e, t) ==
  IF includes(toLowerCase(e.text), <<"o", "r", "a", "n", "g", "e">>) /\ includes(t, <<"o", "r", "a", "n", "g", "e", " ", "p", "e", "e", "l">>)
  THEN 2 ELSE 0

PinholeRule(e, t) ==
  IF includes(toLowerCase(e.text), <<"p", "i", "n", "h", "o", "l", "e">>)
       /\ (includes(t, <<"p", "i", "n", "h", "o", "l", "e", "s">>) \/ includes(t, <<"c", "r", "a", "t", "e", "r">>))
  THEN 2 ELSE 0

AdhesionRule(e, t) ==
  IF (includes(t, <<"a", "d", "h", "e", "s", "i", "o", "n">>) \/ includes(t, <<"t", "a", "p", "e", " ", "t", "e", "s", "t">>)) /\ e.code = "CD004-AD"
  THEN 2 ELSE 0

RuleSum(e, t) == OrangeRule(e, t) + PinholeRule(e, t) + AdhesionRule(e, t)

\* The score the fallback gave the i-th entry of the catalog.
ScoreOfKB(i) ==
  scored[CHOOSE j \in 1..Len(scored) : scored[j].entry = KB[i]].score

MaxScore ==
  CHOOSE m \in {scored[j].score : j \in 1..Len(scored)} :
    \A j \in 1..Len(scored) : scored[j].score <= m

\* The first entry, in declaration order, that has the maximum score.
FirstMaximum ==
  CHOOSE i \in 1..Len(KB) :
    ScoreOfKB(i) = MaxScore /\ \A k \in 1..(i - 1) : ScoreOfKB(k) < MaxScore

\* The first entry of the literal catalog with the greatest sum of rules.
ExpectedTop(t) ==
  CHOOSE i \in 1..Len(KBLiteral) :
    /\ \A k \in 1..Len(KBLiteral) : RuleSum(KBLiteral[k], t) <= RuleSum(KBLiteral[i], t)
    /\ \A k \in 1..(i - 1) : RuleSum(KBLiteral[k], t) < RuleSum(KBLiteral[i], t)

\* s without its leading and trailing white space.
Trimmed(s) ==
  LET kept == {i \in 1..Len(s) : s[i] \notin WhiteSpace}
  IN IF kept = {} THEN <<>>
     ELSE SubSeq(s, CHOOSE i \in kept : \A k \in kept : i <= k,
                    CHOOSE i \in kept : \A k \in kept : k <= i)

\* The request went through handleAnalyze (directly or from handleChat).
Analyzed == "handleAnalyze" \in calls /\ req.valid

\* The response of a direct /api/analyze request that succeeded.
AnalyzeOk == pc = "done" /\ req.op = "analyze" /\ resp.status = 200

(***************************************************************************)
(* Properties.                                                             *)
(***************************************************************************)
\* C1: whatever the vector index does (not configured, no match, a top
\* match whose metadata code or id is any string), the match candidate of
\* Analyze carries the code of some KB entry, never null or unresolved.
C1_BestMatchCodeInKB ==
  /\ (pc = "rationale" => best_match.code \in KBCodes)
  /\ (AnalyzeOk => resp.body.best_match.code \in KBCodes)

\* C2: when the embedding call or the index query throws during Analyze,
\* the fallback scorer runs and the failure is not answered with a 500.
C2_VectorFailureFallsBack ==
  (Analyzed /\ pc = "done" /\ ("embed!" \in calls \/ "query!" \in calls))
    => /\ "fallback" \in calls
       /\ scored # <<>>
       /\ ("rationale!" \notin calls => resp.status = 200)

\* C3: when the rationale generator throws during Analyze, the request is
\* still answered ok:true with the same best_match and defect, and with the
\* empty string as rationale.
C3_RationaleFailureDegrades ==
  (Analyzed /\ pc = "done" /\ "rationale!" \in calls)
    => /\ resp.status = 200
       /\ req.op = "analyze"
            => /\ resp.body.ok = "true"
               /\ resp.body.rationale = ""
               /\ resp.body.best_match = best_match
               /\ resp.body.defect.code \in KBCodes

\* C4: in an Analyze response image_key is non-null only if the bytes were
\* written to the object store under that key; when the payload is malformed
\* or the put throws, the image does not fail the request and image_key is
\* null.
C4_ImageKeyOnlyIfStored ==
  /\ AnalyzeOk
       => /\ resp.body.ok = "true"
          /\ resp.body.image_key # NullKey
               => "put" \in calls /\ resp.body.image_key \in DOMAIN bucket
          /\ ("atob!" \in calls \/ "put!" \in calls) => resp.body.image_key = NullKey
  /\ (Analyzed /\ pc = "done" /\ req.op = "analyze"
        /\ calls \cap {"embed!", "query!", "rationale!"} = {})
       => resp.status = 200

\* C5: on the fallback path the score of every KB entry is the sum of the
\* three rules (orange peel, pinhole, adhesion), each evaluated on its own
\* over the lower-cased description.
C5_ScoreIsSumOfRules ==
  scored # <<>>
    => /\ Len(scored) = Len(KB)
       /\ \A j \in 1..Len(scored) :
            scored[j].score = RuleSum(scored[j].entry, LoweredDescription)

\* C5 witness: a mixed-case description for which two rules fire, each for
\* its own entry.
C5_Witness ==
  /\ pc = "done" /\ resp.status = 200 /\ scored # <<>>
  /\ req.description # LoweredDescription
  /\ \E i, j \in 1..Len(scored) :
       /\ i # j
       /\ OrangeRule(scored[i].entry, LoweredDescription) = 2
       /\ AdhesionRule(scored[j].entry, LoweredDescription) = 2

\* C6: on the fallback path the selected entry is the first one, in KB
\* declaration order, with the maximum score; best_match.score is that
\* maximum; the choice is a function of the description alone.
C6_FallbackPicksFirstMaximum ==
  "fallback" \in calls
    => /\ \A i \in 1..Len(KB) : \E j \in 1..Len(scored) : scored[j].entry = KB[i]
       /\ best_match.code = KB[FirstMaximum].code
       /\ best_match.name = KB[FirstMaximum].name
       /\ best_match.severity = KB[FirstMaximum].severity
       /\ best_match.score = MaxScore
       /\ best_match.code = KBLiteral[ExpectedTop(LoweredDescription)].code
       /\ best_match.score =
            RuleSum(KBLiteral[ExpectedTop(LoweredDescription)], LoweredDescription)
       /\ AnalyzeOk => resp.body.best_match = best_match

\* C6 witness: two entries share the maximum 2 and the earlier one is
\* returned.
C6_Witness ==
  /\ AnalyzeOk /\ "fallback" \in calls
  /\ ScoreOfKB(1) = 2 /\ ScoreOfKB(4) = 2
  /\ resp.body.best_match.code = "CD001-OP"
  /\ resp.body.best_match.score = 2

\* C7 as stated: an Upload whose data is missing or empty is answered 400
\* and writes nothing, whatever the configuration of the object store.
C7_UploadMissingDataIs400 ==
  [][(pc = "idle" /\ req'.op = "upload" /\ req'.data = <<>>)
       => (resp'.status = 400 /\ bucket' = bucket)]_vars

\* C7 as amended: an Upload whose data is missing or empty writes nothing
\* and calls no collaborator; it is answered 400 when the object store is
\* configured and 500 when it is not.
C7_UploadMissingDataWritesNothing ==
  [][(pc = "idle" /\ req'.op = "upload" /\ req'.data = <<>>)
       => /\ resp'.status = (IF env.DEFECT_IMAGES THEN 400 ELSE 500)
          /\ bucket' = bucket
          /\ calls' = {}]_vars

\* C7 witness: a named upload without data is refused with 400 by a worker
\* whose store already holds objects.
C7_Witness ==
  /\ pc = "done" /\ req.op = "upload" /\ req.valid
  /\ req.filename # <<>> /\ req.data = <<>>
  /\ env.DEFECT_IMAGES /\ DOMAIN bucket # {}
  /\ resp.status = 400

\* C8: a Chat message shorter than 3 characters after trimming is answered
\* with the clarifying prompt and nothing is called; a message of 3 or more
\* characters is handed to Analyze, trimmed, as the description.
C8_ChatShortMessageNotAnalyzed ==
  (req.op = "chat" /\ req.valid)
    => IF Len(Trimmed(req.message)) < 3
       THEN /\ pc = "done"
            /\ resp.status = 200
            /\ resp.body.reply.kind = "clarify"
            /\ calls = {}
            /\ scored = <<>> /\ best_match = NullMatch /\ image_key = NullKey
       ELSE /\ "handleAnalyze" \in calls
            /\ req.description = Trimmed(req.message)

\* C8 witness: a message of 4 characters, 2 of them after trimming, got the
\* clarifying prompt.
C8_Witness ==
  /\ pc = "done" /\ req.op = "chat" /\ req.valid
  /\ Len(req.message) >= 3 /\ Len(Trimmed(req.message)) = 2
  /\ resp.body.reply.kind = "clarify"

C10_PinholeRuleNeverScores ==
  /\ \A i \in 1..Len(KB) : ~includes(toLowerCase(KB[i].text), <<"p", "i", "n", "h", "o", "l", "e">>)
  /\ scored # <<>>
       => /\ \A j \in 1..Len(scored) : scored[j].score \in {0, 2}
          /\ (/\ ~includes(LoweredDescription, <<"o", "r", "a", "n", "g", "e", " ", "p", "e", "e", "l">>)
              /\ ~includes(LoweredDescription, <<"a", "d", "h", "e", "s", "i", "o", "n">>)
              /\ ~includes(LoweredDescription, <<"t", "a", "p", "e", " ", "t", "e", "s", "t">>))
               => /\ \A j \in 1..Len(scored) : scored[j].score = 0
                  /\ best_match.code = "CD001-OP"
                  /\ best_match.score = 0
                  /\ AnalyzeOk => /\ resp.body.best_match.code = "CD001-OP"
                                  /\ resp.body.best_match.score = 0

\* C10 witness: a description that names pinholes and craters is answered
\* CD001-OP with score 0.
C10_Witness ==
  /\ AnalyzeOk /\ "fallback" \in calls
  /\ includes(LoweredDescription, <<"p", "i", "n", "h", "o", "l", "e", "s">>)
  /\ includes(LoweredDescription, <<"c", "r", "a", "t", "e", "r">>)
  /\ resp.body.best_match.code = "CD001-OP"
  /\ resp.body.best_match.score = 0

=============================================================================
